---- MODULE Spec2Model ----
(***************************************************************************)
(* Model of migrate_sqlite_to_postgres.py: the type mapper                 *)
(* (sqlite_type_to_postgres), the value converter (convert_value), the     *)
(* schema synthesizer (create_postgres_table), the table migrator          *)
(* (migrate_table_data) and the driver (main) with its exception handlers. *)
(*                                                                         *)
(* Python strings whose characters matter (declared types, the operator's  *)
(* answer, string cells) are sequences of one-character strings.  Names    *)
(* that are only compared as a whole (target type names, column names)     *)
(* are TLA+ strings.                                                       *)
(***************************************************************************)
EXTENDS Integers, Sequences, FiniteSets, TLC

VARIABLES
    pc,             \* position of main(): which call is about to be made
    response,       \* the operator's answer to input()
    bound,          \* which of main's locals sqlite_conn, sqlite_cursor, pg_conn, pg_cursor are assigned
    tables,         \* list returned by get_sqlite_tables (table numbers), <<>> before
    idx,            \* index in tables of the table being processed (for table in tables)
    tstate,         \* per table: Pending, Introspecting, SchemaCreating, DataTransferring, Done, Failed
    out,            \* per table: the progress markers printed for it
    schema,         \* PRAGMA table_info rows of the current table
    ddl,            \* the CREATE TABLE statement executed for the current table
    rows,           \* sqlite_cursor.fetchall() of the current table
    column_names,   \* names from sqlite_cursor.description
    pg_types,       \* result of get_postgres_column_types for the current table
    i,              \* loop variable of range(0, len(rows), batch_size)
    inserts,        \* executemany calls of the current table: <<[sql, batch]>>
    type_queries,   \* number of get_postgres_column_types calls for the current table
    commits,        \* number of pg_conn.commit() calls
    rollbacks,      \* number of pg_conn.rollback() calls
    exc,            \* exception in flight: "none" or its class
    raised_in,      \* the call that raised the first exception: [step, table], or none
    handler_failed, \* an except clause of main raised instead of completing
    closed,         \* the objects closed by the finally clause
    exit_code,      \* process exit status, -1 while running
    mt_in,          \* type mapper harness: declared type string
    mt_out,         \* type mapper harness: result, "" before the call
    cv_in,          \* value converter harness: [value, pg_type]
    cv_out          \* value converter harness: result, or the "unset" marker

main_vars == <<pc, response, bound, tables, idx, tstate, out, schema, ddl, rows,
               column_names, pg_types, i, inserts, type_queries, commits,
               rollbacks, exc, raised_in, handler_failed, closed, exit_code>>
mt_vars == <<mt_in, mt_out>>
cv_vars == <<cv_in, cv_out>>
vars == <<main_vars, mt_vars, cv_vars>>

----------------------------------------------------------------------------
(* Bounds of the model *)

\* number of tables get_sqlite_tables may return
NumTables == 2
\* largest number of rows a source table holds
MaxRows == 201
\* largest number of fragments concatenated into a declared type string
MaxParts == 2

----------------------------------------------------------------------------
(* Python str.upper() / str.lower() on ASCII letters *)

UpperLetters ==
    <<"A","B","C","D","E","F","G","H","I","J","K","L","M",
      "N","O","P","Q","R","S","T","U","V","W","X","Y","Z">>
LowerLetters ==
    <<"a","b","c","d","e","f","g","h","i","j","k","l","m",
      "n","o","p","q","r","s","t","u","v","w","x","y","z">>

UpperChar(c) ==
    IF \E k \in DOMAIN LowerLetters : LowerLetters[k] = c
    THEN UpperLetters[CHOOSE k \in DOMAIN LowerLetters : LowerLetters[k] = c]
    ELSE c
LowerChar(c) ==
    IF \E k \in DOMAIN UpperLetters : UpperLetters[k] = c
    THEN LowerLetters[CHOOSE k \in DOMAIN UpperLetters : UpperLetters[k] = c]
    ELSE c

upper(s) == [k \in 1..Len(s) |-> UpperChar(s[k])]
lower(s) == [k \in 1..Len(s) |-> LowerChar(s[k])]

\* Python's `key in s` for strings: key occurs as a contiguous substring
StrIn(key, s) ==
    \E p \in 0..(Len(s) - Len(key)) : SubSeq(s, p + 1, p + Len(key)) = key

----------------------------------------------------------------------------
(* sqlite_type_to_postgres *)

\* the dict literal, in insertion order (the order `for key in type_mapping` visits)
type_mapping ==
    << <<(<<"I","N","T","E","G","E","R">>), "INTEGER">>,
       <<(<<"T","E","X","T">>), "TEXT">>,
       <<(<<"R","E","A","L">>), "REAL">>,
       <<(<<"B","L","O","B">>), "BYTEA">>,
       <<(<<"N","U","M","E","R","I","C">>), "NUMERIC">>,
       <<(<<"V","A","R","C","H","A","R">>), "VARCHAR">>,
       <<(<<"D","A","T","E","T","I","M","E">>), "TIMESTAMP">>,
       <<(<<"D","A","T","E">>), "DATE">>,
       <<(<<"T","I","M","E">>), "TIME">>,
       <<(<<"B","O","O","L","E","A","N">>), "BOOLEAN">>,
       <<(<<"J","S","O","N">>), "JSONB">> >>

\* the dict with DATE inserted before DATETIME
type_mapping_date_first ==
    [k \in DOMAIN type_mapping |->
        IF k = 7 THEN type_mapping[8]
        ELSE IF k = 8 THEN type_mapping[7]
        ELSE type_mapping[k]]

RECURSIVE MapLoop(_, _, _)
\* the for loop of lines 49-52, from the k-th key on
MapLoop(mapping, sqlite_type_upper, k) ==
    IF k > Len(mapping) THEN "TEXT"
    ELSE IF StrIn(mapping[k][1], sqlite_type_upper) THEN mapping[k][2]
    ELSE MapLoop(mapping, sqlite_type_upper, k + 1)

sqlite_type_to_postgres_date_first(sqlite_type) ==
    MapLoop(type_mapping_date_first, upper(sqlite_type), 1)

sqlite_type_to_postgres(sqlite_type) ==
    MapLoop(type_mapping, upper(sqlite_type), 1)

----------------------------------------------------------------------------
(* Cell values.  A value is [kind, v]:                                     *)
(*   null            None                                                  *)
(*   int             Python int, v the integer (milliseconds for times)    *)
(*   float           Python float, v the value in tenths (5 is 0.5)        *)
(*   str             Python str, v the sequence of characters              *)
(*   bytes           Python bytes, v the sequence of byte values           *)
(*   bool            Python bool                                           *)
(*   datetime        datetime.datetime, v = <<seconds, microseconds>>      *)
(*   date            datetime.date, v the day number since the epoch       *)
(*   time            datetime.time, v = <<second of day, microseconds>>    *)

None == [kind |-> "null", v |-> 0]
PyInt(n) == [kind |-> "int", v |-> n]
PyFloat(tenths) == [kind |-> "float", v |-> tenths]
PyStr(s) == [kind |-> "str", v |-> s]
PyBytes(b) == [kind |-> "bytes", v |-> b]
PyBool(b) == [kind |-> "bool", v |-> b]

\* isinstance(value, (int, float))
IsNumber(value) == value.kind \in {"int", "float"}

\* bool(value) of Python: non-zero number, non-empty string or bytes
Truthy(value) ==
    CASE value.kind \in {"int", "float"} -> value.v # 0
      [] value.kind \in {"str", "bytes"} -> Len(value.v) > 0
      [] value.kind = "bool" -> value.v
      [] OTHER -> TRUE

\* the tuple ('true', '1', 'yes', 't') of line 101
truthy_tokens ==
    { <<"t","r","u","e">>, <<"1">>, <<"y","e","s">>, <<"t">> }

\* largest absolute number of seconds datetime.fromtimestamp accepts in the
\* model (the platform's limit, scaled to TLC's integers)
MaxEpochSeconds == 2000000

\* value / 1000.0 as <<whole seconds, microseconds>> (floor, as datetime does)
EpochParts(value) ==
    IF value.kind = "int"
    THEN << value.v \div 1000, (value.v % 1000) * 1000 >>
    ELSE << value.v \div 10000, (value.v % 10000) * 100 >>

\* datetime.fromtimestamp(value / 1000.0) raises (OverflowError, OSError, ValueError)
FromTimestampRaises(value) ==
    LET s == EpochParts(value)[1]
    IN  s > MaxEpochSeconds \/ s < -MaxEpochSeconds

\* datetime.fromtimestamp(value / 1000.0), with the local zone taken as UTC
fromtimestamp(value) == [kind |-> "datetime", v |-> EpochParts(value)]
DateOf(dt) == [kind |-> "date", v |-> dt.v[1] \div 86400]
TimeOf(dt) == [kind |-> "time", v |-> << dt.v[1] % 86400, dt.v[2] >>]

\* the boolean branch with the string case taken as bool(value)
convert_boolean_str_truthiness(value) == PyBool(Truthy(value))

\* lines 98-102: the branch taken when pg_type == 'boolean'
convert_boolean(value) ==
    IF IsNumber(value) THEN PyBool(Truthy(value))
    ELSE IF value.kind = "str" THEN PyBool(lower(value.v) \in truthy_tokens)
    ELSE PyBool(Truthy(value))

convert_value(value, pg_type) ==
    IF value.kind = "null" THEN None
    ELSE IF pg_type = "boolean" THEN convert_boolean(value)
    ELSE IF pg_type \in {"timestamp without time zone", "timestamp with time zone"} THEN
        IF IsNumber(value) /\ ~FromTimestampRaises(value)
        THEN fromtimestamp(value) ELSE value
    ELSE IF pg_type = "date" THEN
        IF IsNumber(value) /\ ~FromTimestampRaises(value)
        THEN DateOf(fromtimestamp(value)) ELSE value
    ELSE IF pg_type = "time without time zone" THEN
        IF IsNumber(value) /\ ~FromTimestampRaises(value)
        THEN TimeOf(fromtimestamp(value)) ELSE value
    ELSE value

----------------------------------------------------------------------------
(* Inputs of the two pure functions *)

\* every upper/lower-case spelling of s
CaseVariants(s) ==
    { [k \in 1..Len(s) |-> IF m[k] THEN UpperChar(s[k]) ELSE LowerChar(s[k])] :
        m \in [1..Len(s) -> BOOLEAN] }

Keywords == { type_mapping[k][1] : k \in DOMAIN type_mapping }

Fragments ==
    Keywords \cup
    { <<"I","N","T">>, <<"C","H","A","R">>, <<"S","T","A","M","P">>,
      <<"D","A","T">>, <<"E">>, <<" ">>, <<"(","1",")">> }

RECURSIVE Concats(_)
Concats(n) ==
    IF n = 0 THEN { <<>> }
    ELSE Concats(n - 1) \cup { a \o f : a \in Concats(n - 1), f \in Fragments }

DeclaredTypes ==
    (UNION { CaseVariants(kw) : kw \in Keywords })
    \cup Concats(MaxParts)
    \cup { lower(s) : s \in Concats(MaxParts) }

StringCells ==
    (UNION { CaseVariants(tk) : tk \in truthy_tokens })
    \cup { <<>>, <<"n","o">>, <<"N","O">>, <<"0">>, <<"f","a","l","s","e">>,
           <<"y">>, <<"o","n">>, <<"t","r">>, <<" ","1">>, <<"2">> }

CellValues ==
    { None }
    \cup { PyInt(n) : n \in {-1, 0, 1, 2, 1500, 86401001, 2100000000} }
    \cup { PyFloat(n) : n \in {-10, 0, 5, 10, 864010015} }
    \cup { PyStr(s) : s \in StringCells }
    \cup { PyBytes(<<>>), PyBytes(<<0>>) }

\* data_type names information_schema.columns reports, and two spellings it never reports
PgTypeNames ==
    { "boolean", "integer", "text", "real", "bytea", "numeric", "character varying",
      "timestamp without time zone", "timestamp with time zone", "date",
      "time without time zone", "jsonb", "BOOLEAN", "bool" }

Unset == [kind |-> "unset", v |-> 0]
----------------------------------------------------------------------------
(* The source database: what the SQLite calls return *)

batch_size == 100

\* PRAGMA table_info rows (cid, name, type, notnull, dflt_value, pk);
\* dflt_value <<>> is None
Col(cid, name, type, notnull, dflt_value, pk) ==
    [cid |-> cid, name |-> name, type |-> type, notnull |-> notnull,
     dflt_value |-> dflt_value, pk |-> pk]

SourceSchemas ==
    << << Col(0, "id", <<"I","N","T","E","G","E","R">>, FALSE, <<>>, TRUE),
          Col(1, "active", <<"b","o","o","l","e","a","n">>, TRUE, <<"0">>, FALSE),
          Col(2, "created", <<"D","A","T","E","T","I","M","E">>, FALSE, <<>>, FALSE) >>,
       << Col(0, "flag", <<"B","O","O","L","E","A","N">>, FALSE, <<>>, FALSE),
          Col(1, "day", <<"D","a","t","e">>, TRUE, <<>>, FALSE),
          Col(2, "note", <<>>, FALSE, <<"'","'">>, FALSE) >> >>

SchemaOf(table) == SourceSchemas[((table - 1) % Len(SourceSchemas)) + 1]

\* the r-th row SELECT * returns for the table; the second schema's rows repeat
RowOf(table, r) ==
    IF (table - 1) % Len(SourceSchemas) = 0
    THEN << PyInt(r), PyInt(r % 2), PyInt(r * 3600000) >>
    ELSE << (IF r % 3 = 0 THEN PyStr(<<"Y","e","s">>)
             ELSE IF r % 3 = 1 THEN PyStr(<<"n","o">>) ELSE None),
            PyInt(86400000 * (r % 2)),
            PyFloat(5) >>

RowCounts ==
    { n \in 0..MaxRows :
        n < 3 \/ n = MaxRows \/ n % batch_size \in {0, 1, batch_size - 1} }

\* answers typed at the prompt
Responses ==
    { <<"y","e","s">>, <<"Y","E","S">>, <<"Y">>,
      <<>>, <<"n","o">>, <<"n">>, <<"N","O">>, <<"y","e">>,
      <<"y","e","s","s">>, <<"y","e","s"," ">>, <<"o","k">> }

----------------------------------------------------------------------------
(* create_postgres_table: the statement built by lines 56-73 *)

\* one column definition (lines 58-71); default <<>> is no DEFAULT clause
column_def(col) ==
    [name |-> col.name,
     pg_type |-> sqlite_type_to_postgres(col.type),
     primary_key |-> col.pk,
     not_null |-> (~col.pk /\ col.notnull),
     default |-> IF col.dflt_value # <<>> /\ ~col.pk THEN col.dflt_value ELSE <<>>]

create_table_sql(table_name, sch) ==
    [table |-> table_name, if_not_exists |-> TRUE,
     columns |-> [k \in 1..Len(sch) |-> column_def(sch[k])]]

----------------------------------------------------------------------------
(* get_postgres_column_types: what information_schema.columns reports *)

\* data_type of a column created with the given type name
data_type(pg_type) ==
    CASE pg_type = "INTEGER" -> "integer"
      [] pg_type = "TEXT" -> "text"
      [] pg_type = "REAL" -> "real"
      [] pg_type = "BYTEA" -> "bytea"
      [] pg_type = "NUMERIC" -> "numeric"
      [] pg_type = "VARCHAR" -> "character varying"
      [] pg_type = "TIMESTAMP" -> "timestamp without time zone"
      [] pg_type = "DATE" -> "date"
      [] pg_type = "TIME" -> "time without time zone"
      [] pg_type = "BOOLEAN" -> "boolean"
      [] pg_type = "JSONB" -> "jsonb"

ColumnSet(stmt) == { stmt.columns[k].name : k \in DOMAIN stmt.columns }

\* the table as this statement creates it
CreatedTypes(stmt) ==
    [c \in ColumnSet(stmt) |->
        data_type(stmt.columns[CHOOSE k \in DOMAIN stmt.columns :
                                   stmt.columns[k].name = c].pg_type)]

\* Possible results of the query: the table just created, or (CREATE TABLE IF
\* NOT EXISTS left it alone) a table that existed before with fewer columns,
\* other types, or no visible column at all.
ColumnTypeResults(stmt) ==
    { CreatedTypes(stmt),
      [c \in ColumnSet(stmt) \ {stmt.columns[1].name} |-> CreatedTypes(stmt)[c]],
      [c \in ColumnSet(stmt) |-> "boolean"],
      [c \in {} |-> "text"] }

----------------------------------------------------------------------------
(* migrate_table_data: lines 141-166 *)

\* pg_types.get(col_name, 'text')
TypeOf(types, col_name) ==
    IF col_name \in DOMAIN types THEN types[col_name] ELSE "text"

\* zip(column_names, row): pairs up to the shorter of the two
Zip(names, row) ==
    [k \in 1..(IF Len(names) < Len(row) THEN Len(names) ELSE Len(row)) |->
        << names[k], row[k] >>]

RECURSIVE ConvertPairs(_, _)
\* the loop of lines 160-163 over the zipped pairs, appending to converted_row
ConvertPairs(pairs, types) ==
    IF pairs = <<>> THEN <<>>
    ELSE << convert_value(Head(pairs)[2], TypeOf(types, Head(pairs)[1])) >>
         \o ConvertPairs(Tail(pairs), types)

\* the row converted with the type of the following column (wrapping around)
converted_row_shifted(names, row, types) ==
    [k \in 1..Len(row) |->
        convert_value(row[k], TypeOf(types, names[(k % Len(names)) + 1]))]

\* lines 159-164: tuple(converted_row)
converted_row(names, row, types) == ConvertPairs(Zip(names, row), types)

\* rows[i:i + batch_size]
Slice(rs, from, to) ==
    SubSeq(rs, from + 1, IF to < Len(rs) THEN to ELSE Len(rs))

\* the slice taken one row late
batch_off_by_one(rs, from) == Slice(rs, from + 1, from + batch_size)

\* line 154
batch(rs, from) == Slice(rs, from, from + batch_size)

\* lines 157-164
converted_batch(names, rs, from, types) ==
    [k \in 1..Len(batch(rs, from)) |-> converted_row(names, batch(rs, from)[k], types)]

\* lines 145-148: the statement, as its table, column list and placeholder count
insert_sql(table_name, names) ==
    [table |-> table_name, columns |-> names, placeholders |-> Len(names)]

----------------------------------------------------------------------------
(* main(): state *)

NoTable == 0
NoRaise == [step |-> "none", table |-> NoTable]
NoStatement == [table |-> NoTable, if_not_exists |-> TRUE, columns |-> <<>>]
NoTypes == [c \in {} |-> "text"]

\* the table being processed
Cur == tables[idx]

\* the per-table locals before a table is processed
TableLocalsReset ==
    /\ schema' = <<>>
    /\ ddl' = NoStatement
    /\ rows' = <<>>
    /\ column_names' = <<>>
    /\ pg_types' = NoTypes
    /\ i' = 0
    /\ inserts' = <<>>
    /\ type_queries' = 0

table_locals == <<schema, ddl, rows, column_names, pg_types, i, inserts, type_queries>>
harness_vars == <<mt_vars, cv_vars>>

MainInit(start) ==
    /\ pc = start
    /\ response = <<>>
    /\ bound = {}
    /\ tables = <<>>
    /\ idx = 0
    /\ tstate = [t \in 1..NumTables |-> "Pending"]
    /\ out = [t \in 1..NumTables |-> {}]
    /\ schema = <<>>
    /\ ddl = NoStatement
    /\ rows = <<>>
    /\ column_names = <<>>
    /\ pg_types = NoTypes
    /\ i = 0
    /\ inserts = <<>>
    /\ type_queries = 0
    /\ commits = 0
    /\ rollbacks = 0
    /\ exc = "none"
    /\ raised_in = NoRaise
    /\ handler_failed = FALSE
    /\ closed = {}
    /\ exit_code = -1

HarnessIdle ==
    /\ mt_in = <<>>
    /\ mt_out = ""
    /\ cv_in = [value |-> None, pg_type |-> "text"]
    /\ cv_out = Unset

Init == MainInit("prompt") /\ HarnessIdle

\* a call made at `step` raises an exception of class cls, caught by main's try
Raise(step, cls) ==
    /\ exc' = cls
    /\ raised_in' = [step |-> step, table |-> IF idx = 0 THEN NoTable ELSE Cur]
    /\ pc' = "except"

\* line 190 accepting any answer that begins with y
Accepts_prefix(r) == Len(r) > 0 /\ lower(r)[1] = "y"

\* line 190: the answer is accepted
Accepts(r) == lower(r) \in { <<"y","e","s">>, <<"y">> }

----------------------------------------------------------------------------
(* main(): one action per call the driver makes *)

\* lines 189-192: the answer is not yes / y; main returns
Decline ==
    /\ pc = "prompt"
    /\ \E r \in Responses :
        /\ ~Accepts(r)
        /\ response' = r
    /\ pc' = "exited"
    /\ exit_code' = 0
    /\ UNCHANGED <<bound, tables, idx, tstate, out, table_locals, commits, rollbacks,
                   exc, raised_in, handler_failed, closed, harness_vars>>

\* lines 189-190: the answer is yes / y
Confirm ==
    /\ pc = "prompt"
    /\ \E r \in Responses :
        /\ Accepts(r)
        /\ response' = r
    /\ pc' = "connect_sqlite"
    /\ UNCHANGED <<bound, tables, idx, tstate, out, table_locals, commits, rollbacks,
                   exc, raised_in, handler_failed, closed, exit_code, harness_vars>>

\* lines 197-198
ConnectSqliteOk ==
    /\ pc = "connect_sqlite"
    /\ bound' = bound \cup {"sqlite_conn", "sqlite_cursor"}
    /\ pc' = "connect_pg"
    /\ UNCHANGED <<response, tables, idx, tstate, out, table_locals, commits, rollbacks,
                   exc, raised_in, handler_failed, closed, exit_code, harness_vars>>

\* line 197: sqlite3.connect raises
ConnectSqliteRaises ==
    /\ pc = "connect_sqlite"
    /\ Raise("connect_sqlite", "sqlite3.Error")
    /\ UNCHANGED <<response, bound, tables, idx, tstate, out, table_locals, commits,
                   rollbacks, handler_failed, closed, exit_code, harness_vars>>

\* lines 202-203
ConnectPgOk ==
    /\ pc = "connect_pg"
    /\ bound' = bound \cup {"pg_conn", "pg_cursor"}
    /\ pc' = "get_tables"
    /\ UNCHANGED <<response, tables, idx, tstate, out, table_locals, commits, rollbacks,
                   exc, raised_in, handler_failed, closed, exit_code, harness_vars>>

\* line 202: psycopg2.connect raises
ConnectPgRaises ==
    /\ pc = "connect_pg"
    /\ Raise("connect_pg", "psycopg2.Error")
    /\ UNCHANGED <<response, bound, tables, idx, tstate, out, table_locals, commits,
                   rollbacks, handler_failed, closed, exit_code, harness_vars>>

\* lines 206-212: the table list is read; the loop starts (or is skipped when empty)
GetTablesOk ==
    /\ pc = "get_tables"
    /\ \E n \in 0..NumTables :
        /\ tables' = [k \in 1..n |-> k]
        /\ idx' = IF n > 0 THEN 1 ELSE 0
        /\ pc' = IF n > 0 THEN "get_schema" ELSE "commit"
        /\ tstate' = [t \in 1..NumTables |-> IF n > 0 /\ t = 1 THEN "Introspecting" ELSE "Pending"]
    /\ UNCHANGED <<response, bound, out, table_locals, commits, rollbacks,
                   exc, raised_in, handler_failed, closed, exit_code, harness_vars>>

\* line 206: the query on sqlite_master raises
GetTablesRaises ==
    /\ pc = "get_tables"
    /\ Raise("get_tables", "sqlite3.Error")
    /\ UNCHANGED <<response, bound, tables, idx, tstate, out, table_locals, commits,
                   rollbacks, handler_failed, closed, exit_code, harness_vars>>

\* line 215
GetSchemaOk ==
    /\ pc = "get_schema"
    /\ schema' = SchemaOf(Cur)
    /\ tstate' = [tstate EXCEPT ![Cur] = "SchemaCreating"]
    /\ pc' = "create_table"
    /\ UNCHANGED <<response, bound, tables, idx, out, ddl, rows, column_names, pg_types, i,
                   inserts, type_queries, commits, rollbacks, exc, raised_in,
                   handler_failed, closed, exit_code, harness_vars>>

\* the loop body wrapped in a per-table try that skips the table
GetSchemaRaises_skips ==
    /\ pc = "get_schema"
    /\ raised_in' = [step |-> "get_schema", table |-> Cur]
    /\ tstate' = [tstate EXCEPT ![Cur] = "Failed"]
    /\ pc' = "end_table"
    /\ UNCHANGED <<response, bound, tables, idx, out, table_locals, commits, exc,
                   rollbacks, handler_failed, closed, exit_code, harness_vars>>

\* line 215: PRAGMA table_info raises; nothing in the loop catches it
GetSchemaRaises ==
    /\ pc = "get_schema"
    /\ Raise("get_schema", "sqlite3.Error")
    /\ tstate' = [tstate EXCEPT ![Cur] = "Failed"]
    /\ UNCHANGED <<response, bound, tables, idx, out, table_locals, commits,
                   rollbacks, handler_failed, closed, exit_code, harness_vars>>

\* lines 218, 56-77
CreateTableOk ==
    /\ pc = "create_table"
    /\ ddl' = create_table_sql(Cur, schema)
    /\ out' = [out EXCEPT ![Cur] = @ \cup {"created"}]
    /\ tstate' = [tstate EXCEPT ![Cur] = "DataTransferring"]
    /\ pc' = "select_rows"
    /\ UNCHANGED <<response, bound, tables, idx, schema, rows, column_names, pg_types, i,
                   inserts, type_queries, commits, rollbacks, exc, raised_in,
                   handler_failed, closed, exit_code, harness_vars>>

\* create_postgres_table printing the error without re-raising it
CreateTableRaises_swallowed ==
    /\ pc = "create_table"
    /\ ddl' = create_table_sql(Cur, schema)
    /\ out' = [out EXCEPT ![Cur] = @ \cup {"create_error"}]
    /\ tstate' = [tstate EXCEPT ![Cur] = "Failed"]
    /\ raised_in' = [step |-> "create_table", table |-> Cur]
    /\ pc' = "select_rows"
    /\ UNCHANGED <<response, bound, tables, idx, schema, rows, column_names, pg_types, i,
                   inserts, type_queries, commits, rollbacks, exc,
                   handler_failed, closed, exit_code, harness_vars>>

\* lines 76-80: execute raises; the error is printed and re-raised
CreateTableRaises ==
    /\ pc = "create_table"
    /\ ddl' = create_table_sql(Cur, schema)
    /\ out' = [out EXCEPT ![Cur] = @ \cup {"create_error"}]
    /\ tstate' = [tstate EXCEPT ![Cur] = "Failed"]
    /\ \E cls \in {"psycopg2.Error", "Exception"} : Raise("create_table", cls)
    /\ UNCHANGED <<response, bound, tables, idx, schema, rows, column_names, pg_types, i,
                   inserts, type_queries, commits, rollbacks,
                   handler_failed, closed, exit_code, harness_vars>>

\* migrate_table_data without the `if not rows: return` of lines 137-139
SelectRowsOk_no_empty_check ==
    /\ pc = "select_rows"
    /\ \E n \in RowCounts : rows' = [r \in 1..n |-> RowOf(Cur, r)]
    /\ pc' = "get_types"
    /\ UNCHANGED <<response, bound, tables, idx, tstate, out, schema, ddl, column_names,
                   pg_types, i, inserts, type_queries, commits, rollbacks, exc, raised_in,
                   handler_failed, closed, exit_code, harness_vars>>

\* lines 134-139 (and 223): the rows are read; an empty table is reported and left
SelectRowsOk ==
    /\ pc = "select_rows"
    /\ \E n \in RowCounts :
        /\ rows' = [r \in 1..n |-> RowOf(Cur, r)]
        /\ out' = [out EXCEPT ![Cur] = IF n = 0 THEN @ \cup {"empty"} ELSE @]
        /\ tstate' = [tstate EXCEPT ![Cur] = IF n = 0 THEN "Done" ELSE @]
        /\ pc' = IF n = 0 THEN "end_table" ELSE "get_types"
    /\ UNCHANGED <<response, bound, tables, idx, schema, ddl, column_names, pg_types, i,
                   inserts, type_queries, commits, rollbacks, exc, raised_in,
                   handler_failed, closed, exit_code, harness_vars>>

\* lines 134-135: the SELECT raises
SelectRowsRaises ==
    /\ pc = "select_rows"
    /\ Raise("select_rows", "sqlite3.Error")
    /\ tstate' = [tstate EXCEPT ![Cur] = "Failed"]
    /\ UNCHANGED <<response, bound, tables, idx, out, table_locals, commits,
                   rollbacks, handler_failed, closed, exit_code, harness_vars>>

\* lines 142-148: column names from the cursor description, types from the target
GetTypesOk ==
    /\ pc = "get_types"
    /\ column_names' = [k \in 1..Len(schema) |-> schema[k].name]
    /\ type_queries' = type_queries + 1
    /\ pg_types' \in ColumnTypeResults(ddl)
    /\ i' = 0
    /\ pc' = "insert_batch"
    /\ UNCHANGED <<response, bound, tables, idx, tstate, out, schema, ddl, rows,
                   inserts, commits, rollbacks, exc, raised_in,
                   handler_failed, closed, exit_code, harness_vars>>

\* line 143: the query on information_schema raises (outside the try of line 150)
GetTypesRaises ==
    /\ pc = "get_types"
    /\ column_names' = [k \in 1..Len(schema) |-> schema[k].name]
    /\ type_queries' = type_queries + 1
    /\ tstate' = [tstate EXCEPT ![Cur] = "Failed"]
    /\ Raise("get_types", "psycopg2.Error")
    /\ UNCHANGED <<response, bound, tables, idx, out, schema, ddl, rows, pg_types, i,
                   inserts, commits, rollbacks,
                   handler_failed, closed, exit_code, harness_vars>>

\* the executemany call of one loop iteration (lines 154-166)
InsertCall ==
    [sql |-> insert_sql(Cur, column_names),
     params |-> converted_batch(column_names, rows, i, pg_types)]

\* lines 153-168: one batch is converted and inserted; after the last one the
\* row count is reported
InsertBatchOk ==
    /\ pc = "insert_batch"
    /\ inserts' = Append(inserts, InsertCall)
    /\ i' = i + batch_size
    /\ out' = [out EXCEPT ![Cur] = IF i + batch_size < Len(rows) THEN @ ELSE @ \cup {"migrated"}]
    /\ tstate' = [tstate EXCEPT ![Cur] = IF i + batch_size < Len(rows) THEN @ ELSE "Done"]
    /\ pc' = IF i + batch_size < Len(rows) THEN "insert_batch" ELSE "end_table"
    /\ UNCHANGED <<response, bound, tables, idx, schema, ddl, rows, column_names, pg_types,
                   type_queries, commits, rollbacks, exc, raised_in,
                   handler_failed, closed, exit_code, harness_vars>>

\* lines 166, 169-171: executemany raises; the error is printed and re-raised
InsertBatchRaises ==
    /\ pc = "insert_batch"
    /\ inserts' = Append(inserts, InsertCall)
    /\ out' = [out EXCEPT ![Cur] = @ \cup {"migrate_error"}]
    /\ tstate' = [tstate EXCEPT ![Cur] = "Failed"]
    /\ \E cls \in {"psycopg2.Error", "Exception"} : Raise("insert_batch", cls)
    /\ UNCHANGED <<response, bound, tables, idx, schema, ddl, rows, column_names, pg_types,
                   i, type_queries, commits, rollbacks,
                   handler_failed, closed, exit_code, harness_vars>>

\* lines 223, 211: the loop moves to the next table, or ends
EndTable ==
    /\ pc = "end_table"
    /\ TableLocalsReset
    /\ idx' = IF idx < Len(tables) THEN idx + 1 ELSE idx
    /\ tstate' = IF idx < Len(tables)
                 THEN [tstate EXCEPT ![tables[idx + 1]] = "Introspecting"]
                 ELSE tstate
    /\ pc' = IF idx < Len(tables) THEN "get_schema" ELSE "commit"
    /\ UNCHANGED <<response, bound, tables, out, commits, rollbacks, exc, raised_in,
                   handler_failed, closed, exit_code, harness_vars>>

\* lines 226-230
CommitOk ==
    /\ pc = "commit"
    /\ commits' = commits + 1
    /\ pc' = "finally"
    /\ UNCHANGED <<response, bound, tables, idx, tstate, out, table_locals, rollbacks,
                   exc, raised_in, handler_failed, closed, exit_code, harness_vars>>

\* line 226: commit raises
CommitRaises ==
    /\ pc = "commit"
    /\ commits' = commits + 1
    /\ Raise("commit", "psycopg2.Error")
    /\ UNCHANGED <<response, bound, tables, idx, tstate, out, table_locals, rollbacks,
                   handler_failed, closed, exit_code, harness_vars>>

----------------------------------------------------------------------------
(* main(): the except and finally clauses *)

\* lines 232-234: except sqlite3.Error
ExceptSqlite ==
    /\ pc = "except"
    /\ exc = "sqlite3.Error"
    /\ exc' = "SystemExit"
    /\ pc' = "finally"
    /\ UNCHANGED <<response, bound, tables, idx, tstate, out, table_locals, commits,
                   rollbacks, raised_in, handler_failed, closed, exit_code, harness_vars>>

\* Lines 237-239 and 242-244.  `if pg_conn:` reads a local that is unassigned
\* when the exception came before line 202: UnboundLocalError leaves the handler.
RollbackAndExit ==
    IF "pg_conn" \in bound
    THEN /\ rollbacks' = rollbacks + 1
         /\ exc' = "SystemExit"
         /\ UNCHANGED handler_failed
    ELSE /\ exc' = "UnboundLocalError"
         /\ handler_failed' = TRUE
         /\ UNCHANGED rollbacks

\* lines 235-239: except psycopg2.Error
ExceptPg ==
    /\ pc = "except"
    /\ exc = "psycopg2.Error"
    /\ RollbackAndExit
    /\ pc' = "finally"
    /\ UNCHANGED <<response, bound, tables, idx, tstate, out, table_locals, commits,
                   raised_in, closed, exit_code, harness_vars>>

\* lines 240-244: except Exception
ExceptException ==
    /\ pc = "except"
    /\ exc = "Exception"
    /\ RollbackAndExit
    /\ pc' = "finally"
    /\ UNCHANGED <<response, bound, tables, idx, tstate, out, table_locals, commits,
                   raised_in, closed, exit_code, harness_vars>>

\* the objects the finally clause closes before it ends or raises
ClosedByFinally ==
    IF "sqlite_cursor" \notin bound THEN {}
    ELSE IF "pg_cursor" \notin bound THEN {"sqlite_cursor", "sqlite_conn"}
    ELSE {"sqlite_cursor", "sqlite_conn", "pg_cursor", "pg_conn"}

\* the first `if` of lines 247-253 that reads an unassigned local raises
FinallyRaises == "sqlite_cursor" \notin bound \/ "pg_cursor" \notin bound

\* lines 245-254, then the interpreter exits: status 0 when main returned,
\* 1 for SystemExit(1) or an uncaught exception
Finally ==
    /\ pc = "finally"
    /\ closed' = ClosedByFinally
    /\ exc' = IF FinallyRaises THEN "UnboundLocalError" ELSE exc
    /\ exit_code' = IF exc = "none" /\ ~FinallyRaises THEN 0 ELSE 1
    /\ pc' = "exited"
    /\ UNCHANGED <<response, bound, tables, idx, tstate, out, table_locals, commits,
                   rollbacks, raised_in, handler_failed, harness_vars>>

Next ==
    \/ Decline \/ Confirm
    \/ ConnectSqliteOk \/ ConnectSqliteRaises
    \/ ConnectPgOk \/ ConnectPgRaises
    \/ GetTablesOk \/ GetTablesRaises
    \/ GetSchemaOk \/ GetSchemaRaises
    \/ CreateTableOk \/ CreateTableRaises
    \/ SelectRowsOk \/ SelectRowsRaises
    \/ GetTypesOk \/ GetTypesRaises
    \/ InsertBatchOk \/ InsertBatchRaises
    \/ EndTable
    \/ CommitOk \/ CommitRaises
    \/ ExceptSqlite \/ ExceptPg \/ ExceptException
    \/ Finally

Spec == Init /\ [][Next]_vars

----------------------------------------------------------------------------
(* The pure functions applied to drawn inputs *)

InitMapType ==
    /\ MainInit("idle")
    /\ mt_in \in DeclaredTypes
    /\ mt_out = ""
    /\ cv_in = [value |-> None, pg_type |-> "text"]
    /\ cv_out = Unset

MapType ==
    /\ mt_out = ""
    /\ mt_out' = sqlite_type_to_postgres(mt_in)
    /\ UNCHANGED <<main_vars, mt_in, cv_vars>>

SpecMapType == InitMapType /\ [][MapType]_vars

InitConvert ==
    /\ MainInit("idle")
    /\ mt_in = <<>>
    /\ mt_out = ""
    /\ cv_in \in [value : CellValues, pg_type : PgTypeNames]
    /\ cv_out = Unset

Convert ==
    /\ cv_out.kind = "unset"
    /\ cv_out' = convert_value(cv_in.value, cv_in.pg_type)
    /\ UNCHANGED <<main_vars, mt_vars, cv_in>>

SpecConvert == InitConvert /\ [][Convert]_vars

----------------------------------------------------------------------------
(* Properties *)

RECURSIVE Flatten(_)
Flatten(batches) ==
    IF batches = <<>> THEN <<>> ELSE Head(batches) \o Flatten(Tail(batches))

Submitted == [k \in DOMAIN inserts |-> inserts[k].params]
Exiting == pc \in {"except", "finally", "exited"}
LaterTables == { tables[j] : j \in (idx + 1)..Len(tables) }
SomeTableRaised == raised_in.step \in {"get_schema", "create_table", "select_rows",
                                       "get_types", "insert_batch"}

\* the answer, compared without regard to case, is neither yes nor y
NotAffirmative(r) == upper(r) \notin { <<"Y","E","S">>, <<"Y">> }

\* C1: commit() is called at most once and only when every table of the list
\* is Done; on a run in which a table step raised, commit() is never called and
\* rollback() has been called by the time the process has terminated.
C1_SingleCommitOrRollback ==
    /\ commits <= 1
    /\ commits = 1 => \A j \in DOMAIN tables : tstate[tables[j]] = "Done"
    /\ SomeTableRaised => commits = 0
    /\ (SomeTableRaised /\ pc = "exited") => rollbacks >= 1

\* C2: once the DDL or a batch insert of a table has raised, the run is only
\* exiting: no later table was touched, no further batch of this table is
\* sent, nothing is committed, and at exit rollback() has been called once and
\* the status is non-zero.
C2_TargetFailureFatal ==
    raised_in.step \in {"create_table", "insert_batch"} =>
        /\ Exiting
        /\ raised_in.table = Cur
        /\ tstate[Cur] = "Failed"
        /\ \A t \in LaterTables : tstate[t] = "Pending" /\ out[t] = {}
        /\ (raised_in.step = "create_table" => rows = <<>> /\ inserts = <<>>)
        /\ (raised_in.step = "insert_batch" => Len(inserts) = (i \div batch_size) + 1)
        /\ commits = 0
        /\ (pc \in {"finally", "exited"} => rollbacks = 1)
        /\ (pc = "exited" => exit_code # 0)

C2_Witness ==
    /\ pc = "exited"
    /\ raised_in = [step |-> "create_table", table |-> 1]
    /\ Len(tables) = 2
    /\ rollbacks = 1

\* C3 as stated: after get_table_schema raised for a table, the table is
\* skipped and every later table is still processed.
C3_SkippedAndContinued ==
    (raised_in.step = "get_schema" /\ pc = "exited") =>
        \A t \in LaterTables : tstate[t] \in {"Done", "Failed"}

\* C3 amended: after get_table_schema raised for a table, the run is only
\* exiting: the table is Failed, no later table is processed, commit() is never
\* called, and the process exits with a non-zero status.
C3_IntrospectionFailureFatal ==
    raised_in.step = "get_schema" =>
        /\ Exiting
        /\ tstate[Cur] = "Failed"
        /\ \A t \in LaterTables : tstate[t] = "Pending" /\ out[t] = {}
        /\ commits = 0
        /\ (pc = "exited" => exit_code # 0)

C3_Witness ==
    /\ pc = "exited"
    /\ raised_in = [step |-> "get_schema", table |-> 1]
    /\ Len(tables) = 2
    /\ exit_code = 1

\* C4: the process exits 0 exactly on full success or cancellation; on every
\* non-zero exit with the target connection open rollback() was called; and
\* when the target connection was never opened no except clause failed.
C4_ExitCodesAndRollback ==
    pc = "exited" =>
        /\ exit_code = 0 <=> ((commits = 1 /\ raised_in = NoRaise) \/ NotAffirmative(response))
        /\ (exit_code # 0 /\ "pg_conn" \in bound) => rollbacks >= 1
        /\ "pg_conn" \notin bound => ~handler_failed

\* C5: the batches sent for a table are the source rows, converted, in order:
\* every batch has at most batch_size rows, every batch but the last of the
\* table has exactly batch_size, their concatenation is a prefix of the
\* converted rows while the table is in progress and all of them when it is Done.
C5_BatchesPartitionRows ==
    LET flat == Flatten(Submitted) IN
    /\ \A k \in DOMAIN inserts :
        /\ Len(Submitted[k]) >= 1
        /\ Len(Submitted[k]) <= batch_size
        /\ Len(Submitted[k]) < batch_size =>
               (k = Len(inserts) /\ Len(flat) = Len(rows))
    /\ Len(flat) <= Len(rows)
    /\ \A j \in DOMAIN flat : flat[j] = converted_row(column_names, rows[j], pg_types)
    /\ (idx > 0 /\ tstate[Cur] = "Done") => Len(flat) = Len(rows)

C5_Witness ==
    /\ idx > 0
    /\ tstate[Cur] = "Done"
    /\ Len(rows) = 2 * batch_size + 1
    /\ Len(inserts) = 3
    /\ Len(inserts[3].params) = 1

\* C6: when the rows read for a table are empty, the table has been created,
\* no insert and no column-type query was made, the table is reported empty
\* and Done, and the next step is the next table or the commit.
C6_EmptyTable ==
    /\ [] ((pc = "end_table" /\ rows = <<>>) =>
            /\ ddl = create_table_sql(Cur, SchemaOf(Cur))
            /\ {"created", "empty"} \subseteq out[Cur]
            /\ inserts = <<>>
            /\ type_queries = 0
            /\ tstate[Cur] = "Done"
            /\ exc = "none")
    /\ [][ (pc = "end_table" /\ rows = <<>>) =>
            /\ pc' \in {"get_schema", "commit"}
            /\ tstate'[Cur] = "Done"
            /\ exc' = "none" ]_vars

C6_Witness ==
    /\ commits = 1
    /\ Len(tables) = 2
    /\ out[1] = {"created", "empty"}
    /\ "migrated" \in out[2]

\* C7: once the prompt has been answered with anything but yes / y, main has
\* returned with status 0 and no connection, DDL, insert, commit, rollback or
\* close was made.
C7_DeclineIsNoOp ==
    (pc # "prompt" /\ NotAffirmative(response)) =>
        /\ pc = "exited"
        /\ exit_code = 0
        /\ bound = {}
        /\ tables = <<>>
        /\ \A t \in DOMAIN tstate : tstate[t] = "Pending"
        /\ ddl = NoStatement
        /\ inserts = <<>>
        /\ commits = 0
        /\ rollbacks = 0
        /\ closed = {}
        /\ exc = "none"

C7_Witness ==
    /\ pc = "exited"
    /\ response = <<"n","o">>
    /\ exit_code = 0

\* C8: in every insert call the column list is the source columns in order,
\* and every converted row has the length of its source row, its i-th value
\* being convert_value of the i-th source value under the type reported for
\* the i-th column's name ('text' when the name is not reported).
C8_ColumnAlignment ==
    \A k \in DOMAIN inserts :
        /\ Len(inserts[k].sql.columns) = Len(SchemaOf(Cur))
        /\ inserts[k].sql.placeholders = Len(SchemaOf(Cur))
        /\ \A c \in DOMAIN inserts[k].sql.columns :
               inserts[k].sql.columns[c] = SchemaOf(Cur)[c].name
        /\ \A r \in DOMAIN inserts[k].params :
            LET src == rows[(k - 1) * batch_size + r]
                cnv == inserts[k].params[r]
            IN  /\ Len(cnv) = Len(src)
                /\ \A c \in DOMAIN src :
                    LET name == SchemaOf(Cur)[c].name
                        type == IF name \in DOMAIN pg_types THEN pg_types[name] ELSE "text"
                    IN  cnv[c] = convert_value(src[c], type)

C8_Witness ==
    /\ inserts # <<>>
    /\ pg_types = [c \in {"active", "created"} |->
                      IF c = "active" THEN "boolean" ELSE "timestamp without time zone"]
    /\ inserts[1].sql.columns = <<"id", "active", "created">>
    /\ inserts[1].params[1][1].kind = "int"
    /\ inserts[1].params[1][2].kind = "bool"
    /\ inserts[1].params[1][3].kind = "datetime"

\* key occurs in s as a substring when letter case is ignored
OccursIgnoringCase(key, s) ==
    \E p \in 0..(Len(s) - Len(key)) :
        \A q \in 1..Len(key) : LowerChar(s[p + q]) = LowerChar(key[q])

\* C9: the result is the target type of the first keyword of the table, in
\* its order, that occurs in the input ignoring case, TEXT when none occurs;
\* and a keyword alone, in any letter case, gives its own target type.
C9_FirstKeywordWins ==
    mt_out # "" =>
        LET hits == { k \in DOMAIN type_mapping : OccursIgnoringCase(type_mapping[k][1], mt_in) }
        IN  /\ hits = {} => mt_out = "TEXT"
            /\ hits # {} =>
                 mt_out = type_mapping[CHOOSE k \in hits : \A h \in hits : k <= h][2]
            /\ \A k \in DOMAIN type_mapping :
                 upper(mt_in) = type_mapping[k][1] => mt_out = type_mapping[k][2]

C9_Witness ==
    /\ mt_in = <<"d","a","t","e","T","I","M","E">>
    /\ mt_out = "TIMESTAMP"

\* the two strings are equal when letter case is ignored
EqualIgnoringCase(a, b) ==
    Len(a) = Len(b) /\ \A q \in 1..Len(a) : UpperChar(a[q]) = UpperChar(b[q])

\* C10: for the boolean target type, None gives None; a number gives the
\* boolean "is non-zero"; a string gives the boolean "is one of true, 1, yes,
\* t ignoring case"; every non-null input gives a boolean.
C10_BooleanConversion ==
    (cv_out.kind # "unset" /\ cv_in.pg_type = "boolean") =>
        LET value == cv_in.value IN
        /\ value.kind = "null" => cv_out.kind = "null"
        /\ value.kind # "null" => cv_out.kind = "bool"
        /\ value.kind \in {"int", "float"} => (cv_out.v <=> value.v # 0)
        /\ value.kind = "str" =>
             (cv_out.v <=> \E tk \in { <<"T","R","U","E">>, <<"1">>, <<"Y","E","S">>, <<"T">> } :
                              EqualIgnoringCase(value.v, tk))
        /\ (value.kind = "str" /\ value.v \in { <<"n","o">>, <<"0">>, <<"f","a","l","s","e">>, <<>> })
             => cv_out.v = FALSE

C10_Witness ==
    /\ cv_in = [value |-> PyStr(<<"Y","E","s">>), pg_type |-> "boolean"]
    /\ cv_out.kind = "bool"
    /\ cv_out.v = TRUE

====
